---- MODULE Spec2Model ----
(***************************************************************************)
(* booking_scraper: the incremental discovery pipeline                     *)
(* (booking_scraper/scraper.py) and the pushover notifier                  *)
(* (booking_scraper/notifications/pushover.py).                            *)
(*                                                                         *)
(* Text is a sequence of one-character strings, so that str.strip(),       *)
(* str.replace() and a case-insensitive re.search() are computed rather    *)
(* than assumed.  A HotelItem is the tuple <<url, title, price>> of the    *)
(* dataclass; its JSON form is the record dataclasses.asdict() builds.     *)
(*                                                                         *)
(* SpecScrape : one DataStore scope after the other, each running          *)
(*              get_new_hotelitems on pages, card by card.                 *)
(* SpecNotify : one call of send_notifications on a batch of results, the  *)
(*              sends being tasks of the event loop.                       *)
(***************************************************************************)
EXTENDS Integers, Sequences, FiniteSets, TLC

VARIABLES
    \* ---- scraper.py ----
    file,          \* the JSON file behind the DataStore: [kind, obj]
    data,          \* DataStore.data: title -> HotelItem
    pc,            \* position of the run around / inside the DataStore scope
    page,          \* the cards of the soup of the current (or last) search
    patterns,      \* filter_config.exclude_patterns of the current search
    idx,           \* number of cards the generator has been advanced over
    result,        \* the Result object of the current (or last) search
    ret,           \* outcome of the last get_new_hotelitems call
    \* ---- history of the scraper, read by the properties only ----
    data0,         \* the store as it was when the current search began
    repeat,        \* the current search repeats the page of the search before it
    prevTotal,     \* number of items the search before it had discovered
    excludedEver,  \* titles some search has stored and counted as excluded
    lost,          \* titles stored by a search that then aborted
    closeRan,      \* close() has run in the current / last scope
    \* ---- pushover.py ----
    config_dict,   \* the pushover settings handed to send_notifications
    results,       \* the batch of Result objects handed to send_notifications
    npc,           \* position of send_notifications
    tasks,         \* the coroutines appended to `tasks`, as indices into results
    tstate,        \* state of the task of each result
    posted,        \* per result, the requests handed to session.post
    raised,        \* what send_notifications raised: kind and the failing tasks
    config         \* the PushoverConfig built from config_dict

svars == <<file, data, pc, page, patterns, idx, result, ret,
           data0, repeat, prevTotal, excludedEver, lost, closeRan>>
nvars == <<config_dict, results, npc, tasks, tstate, posted, raised, config>>
vars  == <<svars, nvars>>

(***************************************************************************)
(* Bounds of the model.                                                    *)
(***************************************************************************)
MaxCards == 2          \* cards on one page
MaxResults == 2        \* Results in one batch of send_notifications

(***************************************************************************)
(* Text: str.strip(), str.replace("\xa0", " "), re.search with IGNORECASE  *)
(***************************************************************************)
NBSP == "nbsp"

\* str.isspace() holds of the no-break space as well as of the space
IsSpace(c) == c \in {" ", NBSP}

RECURSIVE LStrip(_)
LStrip(s) == IF s # <<>> /\ IsSpace(Head(s)) THEN LStrip(Tail(s)) ELSE s

RECURSIVE RStrip(_)
RStrip(s) ==
    IF s # <<>> /\ IsSpace(s[Len(s)]) THEN RStrip(SubSeq(s, 1, Len(s) - 1)) ELSE s

\* str.strip()
Strip(s) == RStrip(LStrip(s))

\* str.replace("\xa0", " ")
ReplaceNbsp(s) == [i \in 1..Len(s) |-> IF s[i] = NBSP THEN " " ELSE s[i]]

\* case folding of re.IGNORECASE on the letters of the model
Lower(c) == CASE c = "L" -> "l" [] c = "F" -> "f" [] OTHER -> c

LowerText(s) == [i \in 1..Len(s) |-> Lower(s[i])]

\* re.compile(pattern, re.IGNORECASE).search(title), for a literal pattern
Search(pattern, title) ==
    \E i \in 1..(Len(title) + 1) :
        /\ i + Len(pattern) - 1 <= Len(title)
        /\ LowerText(SubSeq(title, i, i + Len(pattern) - 1)) = LowerText(pattern)

(***************************************************************************)
(* scraper.py: the markup extractor                                        *)
(***************************************************************************)
\* A property card of the soup: the elements it has (tags), the href of the
\* heading's link, the text of the heading's div and of the price span.
Tags == {"h3", "a", "href", "div", "price"}

Card(tags, href, text, price) ==
    [tags |-> tags, href |-> href, text |-> text, price |-> price]

NoItem == <<"", <<>>, <<>>>>

\* HotelItem(url=..., title=..., price=...) of one card; any element the
\* three expressions index into and do not find raises (AttributeError,
\* TypeError, KeyError or IndexError)
ExtractCard(card) ==
    IF Tags \subseteq card.tags
    THEN [ok |-> TRUE,
          item |-> <<card.href, Strip(card.text), Strip(ReplaceNbsp(card.price))>>]
    ELSE [ok |-> FALSE, item |-> NoItem]

\* Mutant: a card lacking an element is passed over
RECURSIVE get_hotelitems_from_soup_skip(_, _)
get_hotelitems_from_soup_skip(soup, i) ==
    IF i >= Len(soup) THEN [kind |-> "stop", at |-> i, item |-> NoItem]
    ELSE IF ExtractCard(soup[i + 1]).ok
         THEN [kind |-> "yield", at |-> i + 1, item |-> ExtractCard(soup[i + 1]).item]
         ELSE get_hotelitems_from_soup_skip(soup, i + 1)

\* Mutant: the cards are all extracted before the first one is handed out
get_hotelitems_from_soup_eager(soup, i) ==
    IF \E j \in 1..Len(soup) : ~ExtractCard(soup[j]).ok
    THEN [kind |-> "raise", at |-> i, item |-> NoItem]
    ELSE IF i >= Len(soup) THEN [kind |-> "stop", at |-> i, item |-> NoItem]
    ELSE [kind |-> "yield", at |-> i + 1, item |-> ExtractCard(soup[i + 1]).item]

\* One advance of the async generator that has handed out the first i cards:
\* it yields the item of card i+1, raises on it, or is exhausted.
get_hotelitems_from_soup(soup, i) ==
    IF i >= Len(soup) THEN [kind |-> "stop", at |-> i, item |-> NoItem]
    ELSE IF ExtractCard(soup[i + 1]).ok
         THEN [kind |-> "yield", at |-> i + 1, item |-> ExtractCard(soup[i + 1]).item]
         ELSE [kind |-> "raise", at |-> i, item |-> NoItem]

(***************************************************************************)
(* scraper.py: DataStore                                                   *)
(***************************************************************************)
EmptyDict == <<>>

Put(d, key, value) == [k \in DOMAIN d \cup {key} |-> IF k = key THEN value ELSE d[k]]

\* dataclasses.asdict(HotelItem)
AsDict(item) == [url |-> item[1], title |-> item[2], price |-> item[3]]

\* HotelItem(**value) accepts exactly the three fields
IsItemDict(value) == DOMAIN value = {"url", "title", "price"}

FromDict(value) == <<value.url, value.title, value.price>>

NotFound == [kind |-> "notfound", obj |-> EmptyDict]
Invalid == [kind |-> "invalid", obj |-> EmptyDict]
Json(obj) == [kind |-> "json", obj |-> obj]

\* open(): the mapping read from the file; a missing file leaves the empty
\* mapping of __init__; anything else that cannot be read or built raises
DataStore_open(f) ==
    CASE f.kind = "notfound" -> [ok |-> TRUE, data |-> EmptyDict]
      [] f.kind = "json" /\ \A k \in DOMAIN f.obj : IsItemDict(f.obj[k]) ->
            [ok |-> TRUE, data |-> [k \in DOMAIN f.obj |-> FromDict(f.obj[k])]]
      [] OTHER -> [ok |-> FALSE, data |-> EmptyDict]

\* close(): the whole mapping written over the file
DataStore_close(d) == Json([k \in DOMAIN d |-> AsDict(d[k])])

(***************************************************************************)
(* scraper.py: get_new_hotelitems                                          *)
(***************************************************************************)
Result0 == [num_already_in_datastore |-> 0, num_excluded |-> 0, hotelitems |-> <<>>]

Excluded(pats, title) == \E i \in 1..Len(pats) : Search(pats[i], title)

\* Mutant: the exclude filter runs before the item is stored
ProcessItem_filter_first(d, res, pats, hotelitem) ==
    IF hotelitem[2] \in DOMAIN d
    THEN [data |-> d,
          result |-> [res EXCEPT !.num_already_in_datastore = @ + 1]]
    ELSE IF Excluded(pats, hotelitem[2])
    THEN [data |-> d, result |-> [res EXCEPT !.num_excluded = @ + 1]]
    ELSE [data |-> Put(d, hotelitem[2], hotelitem),
          result |-> [res EXCEPT !.hotelitems = Append(@, hotelitem)]]

\* Mutant: a known title whose stored record differs is stored and reported again
ProcessItem_by_record(d, res, pats, hotelitem) ==
    IF hotelitem[2] \in DOMAIN d /\ d[hotelitem[2]] = hotelitem
    THEN [data |-> d,
          result |-> [res EXCEPT !.num_already_in_datastore = @ + 1]]
    ELSE IF Excluded(pats, hotelitem[2])
    THEN [data |-> Put(d, hotelitem[2], hotelitem),
          result |-> [res EXCEPT !.num_excluded = @ + 1]]
    ELSE [data |-> Put(d, hotelitem[2], hotelitem),
          result |-> [res EXCEPT !.hotelitems = Append(@, hotelitem)]]

\* Mutant: an excluded item is counted and reported as well
ProcessItem_no_continue(d, res, pats, hotelitem) ==
    IF hotelitem[2] \in DOMAIN d
    THEN [data |-> d,
          result |-> [res EXCEPT !.num_already_in_datastore = @ + 1]]
    ELSE IF Excluded(pats, hotelitem[2])
    THEN [data |-> Put(d, hotelitem[2], hotelitem),
          result |-> [res EXCEPT !.num_excluded = @ + 1,
                                 !.hotelitems = Append(@, hotelitem)]]
    ELSE [data |-> Put(d, hotelitem[2], hotelitem),
          result |-> [res EXCEPT !.hotelitems = Append(@, hotelitem)]]

\* The body of the loop over the items: known title / stored and excluded /
\* stored and new
ProcessItem(d, res, pats, hotelitem) ==
    IF hotelitem[2] \in DOMAIN d
    THEN [data |-> d,
          result |-> [res EXCEPT !.num_already_in_datastore = @ + 1]]
    ELSE IF Excluded(pats, hotelitem[2])
    THEN [data |-> Put(d, hotelitem[2], hotelitem),
          result |-> [res EXCEPT !.num_excluded = @ + 1]]
    ELSE [data |-> Put(d, hotelitem[2], hotelitem),
          result |-> [res EXCEPT !.hotelitems = Append(@, hotelitem)]]

Total(res) == res.num_already_in_datastore + res.num_excluded + Len(res.hotelitems)

(***************************************************************************)
(* The inputs of the scraper: cards, pages, exclude patterns, files        *)
(***************************************************************************)
GoodCards ==
    { Card(Tags, "u1", <<" ", "L">>, <<"9", NBSP>>),   \* title L
      Card(Tags, "u2", <<"L", NBSP>>, <<"8">>),        \* title L, other url and price
      Card(Tags, "u3", <<"f">>, <<"8">>) }             \* title f

BadCards ==
    { Card(Tags \ {"a", "href"}, "", <<"f">>, <<"8">>),     \* heading without a link
      Card(Tags \ {"div"}, "u3", <<>>, <<"8">>),            \* heading without a title block
      Card(Tags \ {"price"}, "u4", <<"F", "l">>, <<>>) }    \* no price element

Cards == GoodCards \cup BadCards

\* The pages: up to MaxCards cards in document order.  Extraction ends at the
\* first card it fails on, so one failing card a page covers every way a page
\* can fail.
Pages ==
    { p \in UNION { [1..n -> Cards] : n \in 0..MaxCards } :
        Cardinality({ i \in DOMAIN p : p[i] \in BadCards }) <= 1 }

\* filter_config.exclude_patterns
PatternLists == { <<>>, << <<"l">> >>, << <<"x">>, <<"F">> >> }

ItemL == <<"u1", <<"L">>, <<"9", " ">>>>

InitFiles ==
    { NotFound,
      Invalid,
      Json(EmptyDict),
      Json([k \in {<<"L">>} |-> AsDict(ItemL)]),
      Json([k \in {<<"L">>} |-> [url |-> "u1", title |-> <<"L">>]]) }

(***************************************************************************)
(* The scraper: scopes of the DataStore and the searches inside them       *)
(***************************************************************************)
InitScrape ==
    /\ file \in InitFiles
    /\ data = EmptyDict
    /\ pc = "start"
    /\ page = <<>>
    /\ patterns = <<>>
    /\ idx = 0
    /\ result = Result0
    /\ ret = "none"
    /\ data0 = EmptyDict
    /\ repeat = FALSE
    /\ prevTotal = 0
    /\ excludedEver = {}
    /\ lost = {}
    /\ closeRan = FALSE
    \* send_notifications is not running
    /\ config_dict = <<>>
    /\ results = <<>>
    /\ npc = "start"
    /\ tasks = <<>>
    /\ tstate = <<>>
    /\ posted = <<>>
    /\ raised = [kind |-> "none", of |-> {}]
    /\ config = <<>>

\* A run of the program begins: load_config reads the filter configuration
\* that every search of the run is given; nothing of an earlier run is left
\* but the file.
load_config ==
    /\ UNCHANGED nvars
    /\ pc \in {"start", "exited"}
    /\ patterns' \in PatternLists
    /\ pc' = "loaded"
    /\ data' = EmptyDict
    /\ page' = <<>>
    /\ idx' = 0
    /\ result' = Result0
    /\ ret' = "none"
    /\ data0' = EmptyDict
    /\ repeat' = FALSE
    /\ prevTotal' = 0
    /\ closeRan' = FALSE
    /\ UNCHANGED <<file, excludedEver, lost>>

\* `with DataStore(path) as data_store:` -- __init__ and __enter__; when
\* open() raises, the scope is not entered and __exit__ is not called
DataStore_enter ==
    /\ UNCHANGED nvars
    /\ pc = "loaded"
    /\ data' = DataStore_open(file).data
    /\ pc' = IF DataStore_open(file).ok THEN "open" ELSE "openfail"
    /\ UNCHANGED <<file, page, patterns, idx, result, ret, data0, repeat,
                   prevTotal, excludedEver, lost, closeRan>>

\* Mutant: the store is written only when the scope ends without an exception
DataStore_exit_on_success ==
    /\ UNCHANGED nvars
    /\ pc \in {"open", "raised"}
    /\ file' = IF pc = "open" THEN DataStore_close(data) ELSE file
    /\ closeRan' = (pc = "open")
    /\ pc' = "exited"
    /\ UNCHANGED <<data, page, patterns, idx, result, ret, data0, repeat,
                   prevTotal, excludedEver, lost>>

\* __exit__(*args): close(), whether or not an exception is leaving the scope
DataStore_exit ==
    /\ UNCHANGED nvars
    /\ pc \in {"open", "raised"}
    /\ file' = DataStore_close(data)
    /\ closeRan' = TRUE
    /\ pc' = "exited"
    /\ UNCHANGED <<data, page, patterns, idx, result, ret, data0, repeat,
                   prevTotal, excludedEver, lost>>

\* get_new_hotelitems up to the loop: a fresh Result, the compiled patterns,
\* the soup of the search url
get_new_hotelitems_begin ==
    /\ UNCHANGED nvars
    /\ pc = "open"
    /\ \E p \in Pages :
        /\ page' = p
        /\ repeat' = (ret = "result" /\ p = page)
    /\ prevTotal' = IF repeat' THEN Total(result) ELSE 0
    /\ result' = Result0
    /\ idx' = 0
    /\ ret' = "none"
    /\ data0' = data
    /\ pc' = "iter"
    /\ UNCHANGED <<file, data, patterns, excludedEver, lost, closeRan>>

\* get_soup raises (the request or the reading of the response fails)
get_soup_raise ==
    /\ UNCHANGED nvars
    /\ pc = "open"
    /\ page' = <<>>
    /\ repeat' = FALSE
    /\ prevTotal' = 0
    /\ result' = Result0
    /\ idx' = 0
    /\ ret' = "error"
    /\ data0' = data
    /\ pc' = "raised"
    /\ UNCHANGED <<file, data, patterns, excludedEver, lost, closeRan>>

\* one turn of the loop: the generator yields an item and the body classifies it
get_new_hotelitems_item ==
    /\ UNCHANGED nvars
    /\ pc = "iter"
    /\ get_hotelitems_from_soup(page, idx).kind = "yield"
    /\ LET g == get_hotelitems_from_soup(page, idx)
           r == ProcessItem(data, result, patterns, g.item)
       IN /\ data' = r.data
          /\ result' = r.result
          /\ idx' = g.at
          /\ excludedEver' =
                IF r.result.num_excluded > result.num_excluded
                THEN excludedEver \cup {g.item[2]} ELSE excludedEver
    /\ UNCHANGED <<file, pc, page, patterns, ret, data0, repeat, prevTotal,
                   lost, closeRan>>

\* the generator raises on the next card: the exception leaves the loop, the
\* session and get_new_hotelitems, and no Result is returned
get_new_hotelitems_raise ==
    /\ UNCHANGED nvars
    /\ pc = "iter"
    /\ get_hotelitems_from_soup(page, idx).kind = "raise"
    /\ idx' = get_hotelitems_from_soup(page, idx).at
    /\ ret' = "error"
    /\ pc' = "raised"
    /\ lost' = lost \cup (DOMAIN data \ DOMAIN data0)
    /\ UNCHANGED <<file, data, page, patterns, result, data0, repeat,
                   prevTotal, excludedEver, closeRan>>

\* the generator is exhausted: return result
get_new_hotelitems_return ==
    /\ UNCHANGED nvars
    /\ pc = "iter"
    /\ get_hotelitems_from_soup(page, idx).kind = "stop"
    /\ idx' = get_hotelitems_from_soup(page, idx).at
    /\ ret' = "result"
    /\ pc' = "open"
    /\ UNCHANGED <<file, data, page, patterns, result, data0, repeat,
                   prevTotal, excludedEver, lost, closeRan>>

NextScrape ==
    \/ load_config
    \/ DataStore_enter
    \/ get_new_hotelitems_begin
    \/ get_soup_raise
    \/ get_new_hotelitems_item
    \/ get_new_hotelitems_raise
    \/ get_new_hotelitems_return
    \/ DataStore_exit

SpecScrape == InitScrape /\ [][NextScrape]_vars

(***************************************************************************)
(* pushover.py: PushoverConfig                                             *)
(***************************************************************************)
\* The values of a configuration are sequences: a token or user is a text, a
\* device is a list of names; `not value` holds of the empty one of either.
RequiredFields == {"token", "user"}
ConfigFields == {"token", "user", "device"}

\* PushoverConfig(**config_dict): a TypeError when a field without default is
\* not given or a key is no field; a field's value is not looked at
PushoverConfig(d) ==
    IF RequiredFields \subseteq DOMAIN d /\ DOMAIN d \subseteq ConfigFields
    THEN [ok |-> TRUE,
          config |-> [f \in ConfigFields |-> IF f \in DOMAIN d THEN d[f] ELSE <<>>]]
    ELSE [ok |-> FALSE, config |-> <<>>]

\* ",".join(value)
RECURSIVE Join(_)
Join(list) ==
    IF Len(list) <= 1 THEN list
    ELSE <<Head(list), ",">> \o Join(Tail(list))

\* to_params(): the fields with a truthy value, a list joined by commas
to_params(c) ==
    [f \in { g \in ConfigFields : c[g] # <<>> } |->
        IF f = "device" THEN Join(c[f]) ELSE c[f]]

(***************************************************************************)
(* pushover.py: send_notification                                          *)
(***************************************************************************)
\* Mutant: the message links every new item
Message_all(res) ==
    [count |-> Len(res.hotelitems),
     plural |-> IF Len(res.hotelitems) = 1 THEN "" ELSE "s",
     name |-> res.search_config.name,
     links |-> [j \in 1..Len(res.hotelitems) |->
                    <<res.hotelitems[j][1], res.hotelitems[j][2]>>]]

\* params["message"]: "<b>Found {count} new ad{plural} for {name}</b>" and
\* one line '<a href="{url}">{title}</a>' for hotelitems[0]
Message(res) ==
    [count |-> Len(res.hotelitems),
     plural |-> IF Len(res.hotelitems) = 1 THEN "" ELSE "s",
     name |-> res.search_config.name,
     links |-> << <<res.hotelitems[1][1], res.hotelitems[1][2]>> >>]

\* the request handed to session.post("/1/messages.json", params=params)
Request(c, res) ==
    [params |-> to_params(c),
     html |-> "1",
     message |-> Message(res),
     url |-> res.search_config.url,
     url_title |-> "showing one stay, to show all click here"]

(***************************************************************************)
(* The inputs of the notifier                                              *)
(***************************************************************************)
Token == <<"t">>
User == <<"u">>

ConfigDicts ==
    { [token |-> Token, user |-> User],
      [token |-> Token, user |-> User, device |-> <<"d1", "d2">>],
      [user |-> User],
      [token |-> <<>>, user |-> User],
      [token |-> Token, user |-> User, sound |-> <<"s">>] }

Item1 == <<"u1", <<"L">>, <<"9">>>>
Item2 == <<"u3", <<"f">>, <<"8">>>>

SearchA == [name |-> "a", url |-> "/a"]
SearchB == [name |-> "b", url |-> "/b"]

ResultObjects ==
    { [search_config |-> SearchA, hotelitems |-> <<>>],
      [search_config |-> SearchA, hotelitems |-> <<Item1>>],
      [search_config |-> SearchB, hotelitems |-> <<Item1, Item2>>] }

Batches == UNION { [1..n -> ResultObjects] : n \in 0..MaxResults }

(***************************************************************************)
(* pushover.py: send_notifications and the tasks it gathers                *)
(***************************************************************************)
NoError == [kind |-> "none", of |-> {}]

InitNotify ==
    /\ config_dict \in ConfigDicts
    /\ results \in Batches
    /\ npc = "start"
    /\ tasks = <<>>
    /\ tstate = [i \in 1..Len(results) |-> "none"]
    /\ posted = [i \in 1..Len(results) |-> <<>>]
    /\ raised = NoError
    /\ config = <<>>
    \* the scraper is not running
    /\ file = NotFound
    /\ data = EmptyDict
    /\ pc = "start"
    /\ page = <<>>
    /\ patterns = <<>>
    /\ idx = 0
    /\ result = Result0
    /\ ret = "none"
    /\ data0 = EmptyDict
    /\ repeat = FALSE
    /\ prevTotal = 0
    /\ excludedEver = {}
    /\ lost = {}
    /\ closeRan = FALSE

\* try: config = PushoverConfig(**config_dict)
send_notifications_config ==
    /\ UNCHANGED svars
    /\ npc = "start"
    /\ PushoverConfig(config_dict).ok
    /\ config' = PushoverConfig(config_dict).config
    /\ npc' = "session"
    /\ UNCHANGED <<config_dict, results, tasks, tstate, posted, raised>>

\* except TypeError: raise ValueError(...)
send_notifications_ValueError ==
    /\ UNCHANGED svars
    /\ npc = "start"
    /\ ~PushoverConfig(config_dict).ok
    /\ raised' = [kind |-> "ValueError", of |-> {}]
    /\ npc' = "failed"
    /\ UNCHANGED <<config_dict, results, tasks, tstate, posted, config>>

\* the results the loop makes a coroutine for: those with hotelitems
Selected(rs) ==
    SelectSeq([i \in 1..Len(rs) |-> i], LAMBDA i : rs[i].hotelitems # <<>>)

\* the loop over the results and the call of asyncio.gather(*tasks): every
\* coroutine becomes a task of the loop and send_notifications waits
send_notifications_gather ==
    /\ UNCHANGED svars
    /\ npc = "session"
    /\ tasks' = Selected(results)
    /\ tstate' = [i \in 1..Len(results) |->
                    IF \E k \in 1..Len(Selected(results)) : Selected(results)[k] = i
                    THEN "pending" ELSE "none"]
    /\ npc' = "gather"
    /\ UNCHANGED <<config_dict, results, posted, raised, config>>

TaskSet == { tasks[k] : k \in 1..Len(tasks) }

\* what gather's callback does with the end of task i: the first exception
\* becomes the exception of the gathered future, a later one is retrieved
\* and dropped
GatherCallback(r, i, failed) ==
    IF failed /\ r.kind = "none" THEN [kind |-> "task", of |-> {i}] ELSE r

\* the first step of a task, in the order the tasks were made: send_notification
\* up to the await of session.post
send_notification_post ==
    /\ UNCHANGED svars
    /\ npc = "gather"
    /\ \E k \in 1..Len(tasks) :
        /\ tstate[tasks[k]] = "pending"
        /\ \A j \in 1..(k - 1) : tstate[tasks[j]] # "pending"
        /\ IF results[tasks[k]].hotelitems = <<>>
           THEN \* hotelitems[0] raises IndexError
                /\ tstate' = [tstate EXCEPT ![tasks[k]] = "failed"]
                /\ raised' = GatherCallback(raised, tasks[k], TRUE)
                /\ UNCHANGED posted
           ELSE /\ tstate' = [tstate EXCEPT ![tasks[k]] = "posting"]
                /\ posted' = [posted EXCEPT ![tasks[k]] =
                                Append(@, Request(config, results[tasks[k]]))]
                /\ UNCHANGED raised
    /\ UNCHANGED <<config_dict, results, npc, tasks, config>>

\* The loop polls for I/O only when every callback that was ready has run, so
\* a request ends after each task has taken its first step.
AllStarted == \A i \in TaskSet : tstate[i] # "pending"

\* the request of task i ends: a response with a success status
send_notification_ok ==
    /\ UNCHANGED svars
    /\ npc \in {"gather", "failed"}
    /\ AllStarted
    /\ \E i \in TaskSet :
        /\ tstate[i] = "posting"
        /\ tstate' = [tstate EXCEPT ![i] = "done"]
    /\ UNCHANGED <<config_dict, results, npc, tasks, posted, raised, config>>

\* the request of task i ends: session.post raises, or raise_for_status does
send_notification_raise ==
    /\ UNCHANGED svars
    /\ npc \in {"gather", "failed"}
    /\ AllStarted
    /\ \E i \in TaskSet :
        /\ tstate[i] = "posting"
        /\ tstate' = [tstate EXCEPT ![i] = "failed"]
        /\ raised' = IF npc = "gather" THEN GatherCallback(raised, i, TRUE) ELSE raised
    /\ UNCHANGED <<config_dict, results, npc, tasks, posted, config>>

\* every task has ended without exception: gather returns, the session closes
send_notifications_return ==
    /\ UNCHANGED svars
    /\ npc = "gather"
    /\ \A i \in TaskSet : tstate[i] = "done"
    /\ npc' = "done"
    /\ UNCHANGED <<config_dict, results, tasks, tstate, posted, raised, config>>

\* the gathered future has an exception: it is raised at the await, the
\* session closes and send_notifications ends with it; the tasks still
\* running are not waited for
send_notifications_raise ==
    /\ UNCHANGED svars
    /\ npc = "gather"
    /\ AllStarted
    /\ raised.kind = "task"
    /\ npc' = "failed"
    /\ UNCHANGED <<config_dict, results, tasks, tstate, posted, raised, config>>

NextNotify ==
    \/ send_notifications_config
    \/ send_notifications_ValueError
    \/ send_notifications_gather
    \/ send_notification_post
    \/ send_notification_ok
    \/ send_notification_raise
    \/ send_notifications_return
    \/ send_notifications_raise

SpecNotify == InitNotify /\ [][NextNotify]_vars

(***************************************************************************)
(* Properties of the scraper (SpecScrape)                                  *)
(***************************************************************************)
InScope == {"open", "iter", "raised"}

\* the title of the item the i-th card of the page gives
TitleAt(i) == Strip(page[i].text)

ItemAt(i) == <<page[i].href, Strip(page[i].text), Strip(ReplaceNbsp(page[i].price))>>

WellFormed(card) == card.tags = Tags

\* the loop has just been given the item of card idx'
ItemStep == pc = "iter" /\ pc' = "iter" /\ idx' = idx + 1

\* C1: Dedup-by-title.  A record the store holds under a title stays as it is
\* for as long as the store is in use, and is what close() and the next open()
\* give back; an item is appended to result.hotelitems only when its title
\* was not in the store, and it is then the record stored under the title.
\* So the second of two items with one title is never stored or reported.
C1_DedupByTitle ==
    [][ /\ (pc \in InScope /\ pc' \in InScope) =>
              \A t \in DOMAIN data : t \in DOMAIN data' /\ data'[t] = data[t]
        /\ (pc = "loaded" /\ pc' = "open" /\ file.kind = "json") =>
              \A t \in DOMAIN file.obj :
                 /\ t \in DOMAIN data'
                 /\ data'[t] = <<file.obj[t].url, file.obj[t].title, file.obj[t].price>>
        /\ ItemStep =>
              /\ TitleAt(idx') \in DOMAIN data =>
                    /\ result'.hotelitems = result.hotelitems
                    /\ data' = data
              /\ result'.hotelitems # result.hotelitems =>
                    /\ TitleAt(idx') \notin DOMAIN data
                    /\ result'.hotelitems = Append(result.hotelitems, ItemAt(idx'))
                    /\ data'[TitleAt(idx')] = ItemAt(idx')
      ]_vars

\* a card was met whose title the store holds with another url or price
C1_Witness ==
    /\ pc = "iter"
    /\ idx >= 1
    /\ TitleAt(idx) \in DOMAIN data
    /\ data[TitleAt(idx)] # ItemAt(idx)
    /\ data[TitleAt(idx)][1] # ItemAt(idx)[1]
    /\ data[TitleAt(idx)][3] # ItemAt(idx)[3]
    /\ result.num_already_in_datastore >= 1

\* C2: Idempotence.  A search that returns, run on the page of the search
\* that returned just before it on the same store, reports no new item,
\* excludes none and counts as already known as many items as the first
\* search had discovered in all.
C2_Idempotence ==
    (ret = "result" /\ repeat) =>
        /\ result.hotelitems = <<>>
        /\ result.num_excluded = 0
        /\ result.num_already_in_datastore = prevTotal
        /\ prevTotal = Len(page)

\* the repeated page has a repeated title and a title an exclude pattern matches
C2_Witness ==
    /\ ret = "result"
    /\ repeat
    /\ prevTotal = 2
    /\ \E i \in 1..Len(page) : Excluded(patterns, TitleAt(i))
    /\ \E i, j \in 1..Len(page) : i # j /\ TitleAt(i) = TitleAt(j)

\* C3: Exclusion is seen-but-not-new.  An item whose title is not in the store
\* and matches an exclude pattern is stored, counted in num_excluded and not
\* appended to hotelitems; a title that was once excluded is from then on
\* counted as already known and never appended, whatever the patterns are.
C3_ExcludedSeenNotNew ==
    [][ ItemStep =>
          /\ (TitleAt(idx') \notin DOMAIN data /\ Excluded(patterns, TitleAt(idx'))) =>
                /\ TitleAt(idx') \in DOMAIN data'
                /\ data'[TitleAt(idx')] = ItemAt(idx')
                /\ result'.num_excluded = result.num_excluded + 1
                /\ result'.hotelitems = result.hotelitems
                /\ TitleAt(idx') \in excludedEver'
          /\ TitleAt(idx') \in excludedEver =>
                /\ result'.num_already_in_datastore = result.num_already_in_datastore + 1
                /\ result'.num_excluded = result.num_excluded
                /\ result'.hotelitems = result.hotelitems
                /\ data' = data
      ]_vars

\* a later run, whose patterns do not match it, met a title excluded before
C3_Witness ==
    /\ pc = "iter"
    /\ idx >= 1
    /\ TitleAt(idx) \in excludedEver
    /\ TitleAt(idx) \in DOMAIN data0
    /\ ~Excluded(patterns, TitleAt(idx))
    /\ result.num_already_in_datastore >= 1
    /\ result.hotelitems = <<>>

\* C4: Scoped acquisition.  The scope of an opened store is left only with
\* close() having run, after a search that failed as after a normal end, and
\* the file then holds every item of the store; when open() raises, close()
\* does not run and the file stays as it was.
C4_CloseOnEveryExit ==
    [][ /\ (pc \in InScope /\ pc' \notin InScope) =>
              /\ closeRan'
              /\ file'.kind = "json"
              /\ DOMAIN file'.obj = DOMAIN data
              /\ \A t \in DOMAIN data :
                    file'.obj[t] = [url |-> data[t][1], title |-> data[t][2],
                                    price |-> data[t][3]]
        /\ (pc' = "openfail") =>
              /\ pc = "loaded"
              /\ file.kind # "notfound"
              /\ ~closeRan'
              /\ file' = file
        /\ (pc = "loaded" /\ file.kind = "notfound") => pc' = "open"
      ]_vars

\* the scope was left by a failing search and the file holds what it had stored
C4_Witness ==
    /\ pc = "exited"
    /\ ret = "error"
    /\ closeRan
    /\ DOMAIN data # DOMAIN data0
    /\ DOMAIN file.obj = DOMAIN data

\* C8: Strict extraction.  A card lacking the heading link, the title block
\* or the price element ends the search with an error: the loop is never
\* given a card behind it, nothing is stored or counted for it, and a Result
\* is returned only for a page whose cards are all well-formed.
C8_StrictExtraction ==
    [][ /\ \A i \in 1..idx' : WellFormed(page'[i])
        /\ ret' = "result" => idx' = Len(page')
        /\ (pc = "iter" /\ idx < Len(page) /\ ~WellFormed(page[idx + 1])) =>
              /\ pc' = "raised"
              /\ ret' = "error"
              /\ idx' = idx
              /\ data' = data
              /\ result' = result
        /\ pc = "raised" =>
              /\ pc' = "exited"
              /\ ret' = "error"
              /\ idx' = idx
              /\ data' = data
              /\ result' = result
      ]_vars

\* the search ended on a failing card that has a card behind it
C8_Witness ==
    /\ pc = "raised"
    /\ ret = "error"
    /\ Len(page) > idx + 1
    /\ ~WellFormed(page[idx + 1])
    /\ WellFormed(page[idx + 2])

\* C9: Accounting.  While a search runs and when it has ended, the three
\* counts add up to the number of items the loop was given, the titles the
\* search has added to the store are as many as the excluded and the new
\* items, and an item counted as already known leaves the store as it is.
C9_Accounting ==
    [][ /\ (pc' = "iter" \/ ret' # "none") =>
              /\ Total(result') = idx'
              /\ DOMAIN data0' \subseteq DOMAIN data'
              /\ Cardinality(DOMAIN data' \ DOMAIN data0') =
                    result'.num_excluded + Len(result'.hotelitems)
        /\ result'.num_already_in_datastore > result.num_already_in_datastore =>
              data' = data
      ]_vars

\* a search has met one item of each class
C9_Witness ==
    /\ ret = "result"
    /\ idx = 2
    /\ result.num_already_in_datastore + result.num_excluded = 1
    /\ Len(result.hotelitems) = 1

\* the position of the first card of the page that is not well-formed
FirstBad(p) ==
    IF \A i \in 1..Len(p) : WellFormed(p[i]) THEN 0
    ELSE CHOOSE i \in 1..Len(p) :
            ~WellFormed(p[i]) /\ \A j \in 1..(i - 1) : WellFormed(p[j])

\* the titles the store of the run holds, in the scope and outside of it
StoredTitles == IF pc \in InScope THEN DOMAIN data ELSE DOMAIN file.obj

\* C10: State is not unchanged on error.  A search aborts exactly at the first
\* failing card, k+1, with the titles of the k cards before it in the store
\* and no Result; these titles stay in the store and in the file close()
\* writes, every later search counts them as already known, and none of them
\* is in the new items of a search that is running or has returned.
C10_StoredBeforeAbort ==
    [][ /\ (pc' = "raised" /\ pc = "iter") =>
              /\ idx' = FirstBad(page') - 1
              /\ ret' = "error"
              /\ \A i \in 1..idx' : TitleAt(i) \in DOMAIN data'
              /\ lost' = lost \cup ({ TitleAt(i) : i \in 1..idx' } \ DOMAIN data0)
        /\ pc' # "loaded" => lost' \subseteq StoredTitles'
        /\ (ItemStep /\ TitleAt(idx') \in lost) =>
              /\ result'.num_already_in_datastore = result.num_already_in_datastore + 1
              /\ result'.hotelitems = result.hotelitems
        /\ (pc' = "iter" \/ ret' = "result") =>
              \A j \in 1..Len(result'.hotelitems) : result'.hotelitems[j][2] \notin lost'
      ]_vars

\* a later run, whose patterns do not exclude it, met a title that an aborted
\* search had stored: it is counted as known and not reported
C10_Witness ==
    /\ pc = "iter"
    /\ idx >= 1
    /\ TitleAt(idx) \in lost
    /\ TitleAt(idx) \in DOMAIN data0
    /\ TitleAt(idx) \notin excludedEver
    /\ ~Excluded(patterns, TitleAt(idx))
    /\ closeRan = FALSE
    /\ result.num_already_in_datastore >= 1
    /\ result.hotelitems = <<>>

(***************************************************************************)
(* Properties of the notifier (SpecNotify)                                 *)
(***************************************************************************)
Ended == npc \in {"done", "failed"}

\* C5: One message per result with new items.  No result gets more than one
\* request and a result without hotelitems gets none; a request states the
\* number of hotelitems of its result and links the first of them only; when
\* send_notifications ends, otherwise than by the configuration error, every
\* result with hotelitems has got its request.
C5_OneMessagePerResult ==
    \A i \in 1..Len(results) :
        /\ Len(posted[i]) <= 1
        /\ results[i].hotelitems = <<>> => posted[i] = <<>>
        /\ posted[i] # <<>> =>
              /\ posted[i][1].message.count = Len(results[i].hotelitems)
              /\ posted[i][1].message.name = results[i].search_config.name
              /\ posted[i][1].message.links =
                    << <<results[i].hotelitems[1][1], results[i].hotelitems[1][2]>> >>
        /\ (Ended /\ raised.kind # "ValueError" /\ results[i].hotelitems # <<>>) =>
              Len(posted[i]) = 1

\* a batch of a result with two items and a result with none has been sent
C5_Witness ==
    /\ npc = "done"
    /\ \E i, j \in 1..Len(results) :
        /\ Len(results[i].hotelitems) = 2
        /\ Len(posted[i]) = 1
        /\ posted[i][1].message.count = 2
        /\ results[j].hotelitems = <<>>
        /\ posted[j] = <<>>

\* a required field is not given, or is given empty
ConfigBad ==
    \E f \in RequiredFields : f \notin DOMAIN config_dict \/ config_dict[f] = <<>>

\* C6: Configuration errors fail fast.  When token or user is missing or
\* malformed, no request is handed to session.post and send_notifications
\* ends with the configuration error.
C6_ConfigFailsFast ==
    ConfigBad =>
        /\ \A i \in 1..Len(results) : posted[i] = <<>>
        /\ Ended => (npc = "failed" /\ raised.kind = "ValueError")

\* C7: No failed delivery is swallowed.  When send_notifications has ended,
\* it has ended with an error if a send failed, and every send that has
\* failed is among the failures it reports.
C7_NoFailureSwallowed ==
    Ended =>
        \A i \in TaskSet :
            tstate[i] = "failed" => (npc = "failed" /\ i \in raised.of)

====
